---- MODULE Spec2Model ----
(***************************************************************************)
(* parldl: the dispatch/drain/retry loop of download_images and the        *)
(* single-resource fetcher download_image (src/parldl/__main__.py).        *)
(*                                                                         *)
(* Strings that the code inspects character by character (the error text   *)
(* tested with str.startswith) are sequences of one-character strings.     *)
(***************************************************************************)
EXTENDS Integers, Sequences, FiniteSets, TLC

\* ------------------------------------------------------------------ bounds
MaxUrls == 2            \* longest input URL list
MaxAttemptsOpt == 2     \* largest value of --max-attempts tried (from 0)
MaxWorkersOpt == 2      \* largest value of --parallel tried (from 0)

\* ------------------------------------------------------------------ inputs
\* The URL strings of the runs: a path with a final segment, a path without
\* one, and a string urllib.parse.urlparse rejects ("Invalid IPv6 URL").
URLS == {"http://a/x", "http://b/", "http://["}

\* Status codes a completed exchange may carry.
StatusCodes == {200, 204, 404, 408, 429, 503}

\* Python's None (no error text); never equal to a text, whose elements are
\* single characters.
None == <<"None">>

\* str(e) of exceptions raised by requests.get (beginnings of the real texts).
\* "HTTPSConnectionPool(host=..., port=443): Max retries exceeded ..." is the
\* text of requests' ConnectionError / ConnectTimeout / ReadTimeout.
MsgConnectionPool == <<"H","T","T","P","S","C","o","n","n","e","c","t","i","o","n","P","o","o","l","(">>
\* "Invalid URL ...: No host supplied"
MsgInvalidURL == <<"I","n","v","a","l","i","d"," ","U","R","L">>
TransportMsgs == {MsgConnectionPool, MsgInvalidURL}
\* str(e) of the OSError raised by Path.write_bytes: "[Errno 13] ..."
MsgErrno == <<"[","E","r","r","n","o"," ","1","3","]">>
WriteErrMsgs == {MsgErrno}

\* What the network and the file system answer to one fetch.
\* wr: write_bytes succeeds.  part (wr = FALSE only): write_bytes fails after
\* it has opened the file for writing, which leaves a truncated file; with
\* part = FALSE it fails in open() and the directory is as before.
Responses ==
    {[t |-> "status", code |-> c, wr |-> TRUE, part |-> FALSE, msg |-> None] : c \in StatusCodes}
    \cup {[t |-> "status", code |-> 200, wr |-> FALSE, part |-> pt, msg |-> m] :
            m \in WriteErrMsgs, pt \in BOOLEAN}
    \cup {[t |-> "exc", code |-> 0, wr |-> FALSE, part |-> FALSE, msg |-> m] : m \in TransportMsgs}

\* ------------------------------------------------------------------ text
Digit(d) == <<"0","1","2","3","4","5","6","7","8","9">>[d + 1]

RECURSIVE DecStr(_)
\* str(n) of a non-negative integer
DecStr(n) == IF n < 10 THEN <<Digit(n)>> ELSE DecStr(n \div 10) \o <<Digit(n % 10)>>

\* f"HTTP {response.status_code}"
HttpMsg(code) == <<"H","T","T","P"," ">> \o DecStr(code)

\* str.startswith
StartsWith(s, p) == Len(s) >= Len(p) /\ SubSeq(s, 1, Len(p)) = p

Range(s) == {s[i] : i \in 1..Len(s)}

\* ------------------------------------------------------------------ fetcher
\* urllib.parse.urlparse on the URLs of the runs; ok = FALSE: it raises ValueError.
urlparse(url) ==
    CASE url = "http://a/x" -> [ok |-> TRUE, netloc |-> "a", path |-> "/x"]
      [] url = "http://b/" -> [ok |-> TRUE, netloc |-> "b", path |-> "/"]
      [] url = "http://[" -> [ok |-> FALSE, netloc |-> "", path |-> ""]

\* Path(path).name
PathName(path) == CASE path = "/x" -> "x" [] path = "/" -> "" [] path = "" -> ""

\* f"{netloc}.html"
HostHtml(netloc) == CASE netloc = "a" -> "a.html" [] netloc = "b" -> "b.html" [] netloc = "" -> ".html"

\* The destination file name of a URL that parses.
Filename(url) ==
    LET parsed_url == urlparse(url)
        filename == PathName(parsed_url.path)
    IN IF filename = "" THEN HostHtml(parsed_url.netloc) ELSE filename

FileNames == {"x", "a.html", "b.html", ".html"}
NoFile == "absent"
\* Content of a file whose write failed half way.
Truncated == "truncated"

\* A future's outcome: what future.result() gives.  exc = TRUE: the call
\* raised and result() re-raises.  kind and code record which return
\* statement produced the failure: "HttpStatus" (line 39) or "Transport"
\* (the except clause, line 41).
NoResult == [success |-> FALSE, error |-> None, kind |-> "none", code |-> 0, exc |-> FALSE]
Ret(success, error, kind, code) ==
    [success |-> success, error |-> error, kind |-> kind, code |-> code, exc |-> FALSE]
Raised == [success |-> FALSE, error |-> None, kind |-> "raise", code |-> 0, exc |-> TRUE]

\* download_image(url, output_dir) against the response r.
download_image(url, r) ==
    IF ~urlparse(url).ok THEN Raised
    ELSE IF r.t = "exc" THEN Ret(FALSE, r.msg, "Transport", 0)
    ELSE IF r.code = 200
         THEN IF r.wr THEN Ret(TRUE, None, "none", 200)
                      ELSE Ret(FALSE, r.msg, "Transport", 0)
         ELSE Ret(FALSE, HttpMsg(r.code), "HttpStatus", r.code)

\* Faulty variant: the payload is written before the status is looked at.
Writes_AnyStatus(url, r) == urlparse(url).ok /\ r.t = "status"

\* Whether download_image reaches filepath.write_bytes (line 36).
Writes(url, r) == urlparse(url).ok /\ r.t = "status" /\ r.code = 200

\* ------------------------------------------------------------------ state
VARIABLES
    urls,                \* the input list
    max_attempts,        \* --max-attempts
    max_workers,         \* --parallel
    pc,                  \* where the control loop of _download_images stands
    success_count,
    fail_count,
    total_urls,
    remaining_urls,
    pending_urls,        \* the deque
    failed_forever_urls,
    future_to_url,       \* the dict, in insertion order: futures with their URL
    url_to_attempts,
    done_futures,        \* the list built at line 73, not yet iterated
    files,               \* the output directory: file name -> URL whose payload it holds
    submitted,           \* number of executor.submit calls so far (names the futures)
    fetches,             \* per URL: number of fetches submitted
    outcomes,            \* per URL: the results the loop has consumed, in order
    progress,            \* the last progress line printed
    printed              \* progress lines printed since the current loop pass began

vars == <<urls, max_attempts, max_workers, pc, success_count, fail_count, total_urls,
          remaining_urls, pending_urls, failed_forever_urls, future_to_url,
          url_to_attempts, done_futures, files, submitted, fetches, outcomes,
          progress, printed>>

config == <<urls, max_attempts, max_workers, total_urls>>
counters == <<success_count, fail_count, remaining_urls>>
ghosts == <<fetches, outcomes>>

\* Lists without repetition (main builds the list from a set, lines 167-170),
\* in any order, except that of the two URLs that parse (the code treats them
\* alike but for the file name) "http://a/x" comes first when both are there.
Dedup(n) == {s \in UNION {[1..k -> URLS] : k \in 0..n} :
                /\ \A i, j \in 1..Len(s) : i # j => s[i] # s[j]
                /\ \A i, j \in 1..Len(s) : (s[i] = "http://a/x" /\ s[j] = "http://b/") => i < j}

NoProgress == <<-1, -1, -1>>

Init ==
    /\ urls \in Dedup(MaxUrls)
    /\ max_attempts \in 0..MaxAttemptsOpt
    /\ max_workers \in 0..MaxWorkersOpt
    /\ pc = "executor"
    /\ success_count = 0
    /\ fail_count = 0
    /\ total_urls = Len(urls)
    /\ remaining_urls = Len(urls)
    /\ pending_urls = urls
    /\ failed_forever_urls = <<>>
    /\ future_to_url = <<>>
    /\ url_to_attempts = [u \in Range(urls) |-> 1]
    /\ done_futures = <<>>
    /\ files = [n \in FileNames |-> NoFile]
    /\ submitted = 0
    /\ fetches = [u \in Range(urls) |-> 0]
    /\ outcomes = [u \in Range(urls) |-> <<>>]
    /\ progress = NoProgress
    /\ printed = 0


\* ------------------------------------------------------------------ executor
\* concurrent.futures.Future: "queued" in the executor's work queue,
\* "running" in a worker thread, "finished" with a result or an exception.
NewFuture(fid, url) == [fid |-> fid, url |-> url, state |-> "queued", res |-> NoResult]

InFlight == 1..Len(future_to_url)
Running == {i \in InFlight : future_to_url[i].state = "running"}
Queued == {i \in InFlight : future_to_url[i].state = "queued"}
Finished == {i \in InFlight : future_to_url[i].state = "finished"}

\* ThreadPoolExecutor(max_workers=max_workers): the constructor raises
\* ValueError("max_workers must be greater than 0") for max_workers <= 0.
ExecutorRejects == max_workers <= 0

\* Faulty variant: a thread per work item, whatever max_workers is.
WorkerFree_Unbounded == TRUE

\* The pool owns at most max_workers threads; a work item starts only in a
\* thread that is not running another one.
WorkerFree == Cardinality(Running) < max_workers

\* The work queue is FIFO: the next item to start is the oldest queued one.
NextQueued == CHOOSE i \in Queued : \A j \in Queued : future_to_url[i].fid <= future_to_url[j].fid

\* with ThreadPoolExecutor(max_workers=max_workers) as executor:
EnterExecutor ==
    /\ pc = "executor"
    /\ pc' = IF ExecutorRejects THEN "raised" ELSE "loop"
    /\ UNCHANGED <<config, counters, ghosts, pending_urls, failed_forever_urls,
                   future_to_url, url_to_attempts, done_futures, files, submitted,
                   progress, printed>>

\* A worker thread takes the next work item from the queue.
WorkerStart ==
    /\ pc \notin {"executor", "done", "raised"}
    /\ Queued # {}
    /\ WorkerFree
    /\ future_to_url' = [future_to_url EXCEPT ![NextQueued].state = "running"]
    /\ UNCHANGED <<config, counters, ghosts, pc, pending_urls, failed_forever_urls,
                   url_to_attempts, done_futures, files, submitted, progress, printed>>

\* output_dir after download_image(url) met response r.
WriteFile(fs, url, r) ==
    IF ~Writes(url, r) THEN fs
    ELSE IF r.wr THEN [fs EXCEPT ![Filename(url)] = url]
    ELSE IF r.part THEN [fs EXCEPT ![Filename(url)] = Truncated]
    ELSE fs

\* A worker thread runs download_image to its end and sets the future's
\* result (or exception).
FetchComplete ==
    \E i \in Running : \E r \in Responses :
        /\ future_to_url' = [future_to_url EXCEPT
                                ![i].state = "finished",
                                ![i].res = download_image(future_to_url[i].url, r)]
        /\ files' = WriteFile(files, future_to_url[i].url, r)
        /\ UNCHANGED <<config, counters, ghosts, pc, pending_urls, failed_forever_urls,
                       url_to_attempts, done_futures, submitted, progress, printed>>

\* ------------------------------------------------------------------ control loop
\* while pending_urls or future_to_url:            (line 65; return at line 106)
\* Faulty variant: the body runs before the condition is tested.
LoopGoesOn_BodyFirst == TRUE

\* pending_urls or future_to_url
LoopGoesOn == pending_urls # <<>> \/ future_to_url # <<>>

LoopTest ==
    /\ pc = "loop"
    /\ pc' = IF LoopGoesOn THEN "submit" ELSE "done"
    /\ printed' = 0
    /\ UNCHANGED <<config, counters, ghosts, pending_urls, failed_forever_urls,
                   future_to_url, url_to_attempts, done_futures, files, submitted, progress>>

\* Faulty variant: dispatch only while fewer than max_workers futures are in flight.
MayDispatch_Capped == pending_urls # <<>> /\ Len(future_to_url) < max_workers

\* while pending_urls:                             (line 67)
MayDispatch == pending_urls # <<>>

\* url = pending_urls.popleft(); future = executor.submit(...); future_to_url[future] = url
Submit ==
    /\ pc = "submit"
    /\ MayDispatch
    /\ LET url == Head(pending_urls) IN
        /\ pending_urls' = Tail(pending_urls)
        /\ future_to_url' = Append(future_to_url, NewFuture(submitted + 1, url))
        /\ submitted' = submitted + 1
        /\ fetches' = [fetches EXCEPT ![url] = @ + 1]
    /\ UNCHANGED <<config, counters, pc, failed_forever_urls, url_to_attempts,
                   done_futures, files, outcomes, progress, printed>>

\* The inner while loop ends.
SubmitEnd ==
    /\ pc = "submit"
    /\ ~MayDispatch
    /\ pc' = "snapshot"
    /\ UNCHANGED <<config, counters, ghosts, pending_urls, failed_forever_urls,
                   future_to_url, url_to_attempts, done_futures, files, submitted,
                   progress, printed>>

RECURSIVE DoneFids(_, _)
\* [f for f in future_to_url if f.done()], in the dict's order
DoneFids(fs, i) ==
    IF i > Len(fs) THEN <<>>
    ELSE (IF fs[i].state = "finished" THEN <<fs[i].fid>> ELSE <<>>) \o DoneFids(fs, i + 1)

Snapshot ==
    /\ pc = "snapshot"
    /\ done_futures' = DoneFids(future_to_url, 1)
    /\ pc' = "drain"
    /\ UNCHANGED <<config, counters, ghosts, pending_urls, failed_forever_urls,
                   future_to_url, url_to_attempts, files, submitted, progress, printed>>

\* Position in future_to_url of the future named fid.
IndexOf(fid) == CHOOSE i \in InFlight : future_to_url[i].fid = fid

\* Faulty variant: the future is looked up but left in the dict.
Pop_Keeps(fs, i) == fs

\* future_to_url.pop(future)
Pop(fs, i) == SubSeq(fs, 1, i - 1) \o SubSeq(fs, i + 1, Len(fs))

\* Faulty variant: the prefix "HTTP 4" in place of "HTTP 408" and "HTTP 429".
RetryableText_Any4xx(error) ==
    \/ StartsWith(error, <<"H","T","T","P"," ","5">>)
    \/ StartsWith(error, <<"H","T","T","P"," ","4">>)
    \/ ~StartsWith(error, <<"H","T","T","P">>)

\* The test of lines 80-86 on the error text.
RetryableText(error) ==
    \/ StartsWith(error, <<"H","T","T","P"," ","5">>)
    \/ StartsWith(error, <<"H","T","T","P"," ","4","0","8">>)
    \/ StartsWith(error, <<"H","T","T","P"," ","4","2","9">>)
    \/ ~StartsWith(error, <<"H","T","T","P">>)

\* Faulty variant: <= in place of <.
AttemptsLeft_OffByOne(url) == url_to_attempts[url] <= max_attempts

\* ... and url_to_attempts[url] < max_attempts
AttemptsLeft(url) == url_to_attempts[url] < max_attempts

\* How a consumed result is filed in outcomes: "S" success, "R" a failure
\* with a transport reason or with status 5xx, 408 or 429, "P" any other failure.
Class(res) ==
    IF res.success THEN "S"
    ELSE IF res.kind = "Transport" \/ (res.kind = "HttpStatus" /\ (res.code \in 500..599 \/ res.code \in {408, 429}))
         THEN "R" ELSE "P"

\* Faulty variant: a success that forgets remaining_urls -= 1.
DrainSuccess_KeepsRemaining(url) ==
    /\ success_count' = success_count + 1
    /\ UNCHANGED <<remaining_urls, fail_count, pending_urls, url_to_attempts, failed_forever_urls>>

\* lines 77-79
DrainSuccess(url) ==
    /\ success_count' = success_count + 1
    /\ remaining_urls' = remaining_urls - 1
    /\ UNCHANGED <<fail_count, pending_urls, url_to_attempts, failed_forever_urls>>

\* Faulty variant: every failed attempt is counted as a failure, retried or not.
DrainRetry_CountsFailure(url) ==
    /\ pending_urls' = Append(pending_urls, url)
    /\ url_to_attempts' = [url_to_attempts EXCEPT ![url] = @ + 1]
    /\ fail_count' = fail_count + 1
    /\ UNCHANGED <<success_count, remaining_urls, failed_forever_urls>>

\* Faulty variant: every failed attempt is listed as failed, retried or not.
DrainRetry_RecordsFailure(url) ==
    /\ pending_urls' = Append(pending_urls, url)
    /\ url_to_attempts' = [url_to_attempts EXCEPT ![url] = @ + 1]
    /\ failed_forever_urls' = Append(failed_forever_urls, url)
    /\ UNCHANGED <<success_count, fail_count, remaining_urls>>

\* Faulty variant: appendleft in place of append.
DrainRetry_AppendLeft(url) ==
    /\ pending_urls' = <<url>> \o pending_urls
    /\ url_to_attempts' = [url_to_attempts EXCEPT ![url] = @ + 1]
    /\ UNCHANGED <<success_count, fail_count, remaining_urls, failed_forever_urls>>

\* Faulty variant: the re-queue forgets url_to_attempts[url] += 1.
DrainRetry_NoIncrement(url) ==
    /\ pending_urls' = Append(pending_urls, url)
    /\ UNCHANGED <<url_to_attempts, success_count, fail_count, remaining_urls, failed_forever_urls>>

\* lines 87-88
DrainRetry(url) ==
    /\ pending_urls' = Append(pending_urls, url)
    /\ url_to_attempts' = [url_to_attempts EXCEPT ![url] = @ + 1]
    /\ UNCHANGED <<success_count, fail_count, remaining_urls, failed_forever_urls>>

\* Faulty variant: the failure is counted but not listed.
DrainPermanent_NotListed(url) ==
    /\ fail_count' = fail_count + 1
    /\ remaining_urls' = remaining_urls - 1
    /\ UNCHANGED <<failed_forever_urls, success_count, pending_urls, url_to_attempts>>

\* lines 90-92
DrainPermanent(url) ==
    /\ failed_forever_urls' = Append(failed_forever_urls, url)
    /\ fail_count' = fail_count + 1
    /\ remaining_urls' = remaining_urls - 1
    /\ UNCHANGED <<success_count, pending_urls, url_to_attempts>>

\* One pass of the for loop of line 73 whose future.result() returns.
DrainOne ==
    /\ pc = "drain"
    /\ done_futures # <<>>
    /\ LET i == IndexOf(Head(done_futures))
           res == future_to_url[i].res
           url == future_to_url[i].url
       IN /\ ~res.exc
          /\ future_to_url' = Pop(future_to_url, i)
          /\ done_futures' = Tail(done_futures)
          /\ outcomes' = [outcomes EXCEPT ![url] = Append(@, Class(res))]
          /\ IF res.success THEN DrainSuccess(url)
             ELSE IF RetryableText(res.error) /\ AttemptsLeft(url) THEN DrainRetry(url)
             ELSE DrainPermanent(url)
    /\ UNCHANGED <<config, pc, files, submitted, fetches, progress, printed>>

\* future.result() re-raises what download_image raised (line 74); the
\* exception leaves the for and while loops and reaches the with statement.
DrainRaise ==
    /\ pc = "drain"
    /\ done_futures # <<>>
    /\ future_to_url[IndexOf(Head(done_futures))].res.exc
    /\ pc' = "unwinding"
    /\ done_futures' = <<>>
    /\ UNCHANGED <<config, counters, ghosts, pending_urls, failed_forever_urls,
                   future_to_url, url_to_attempts, files, submitted, progress, printed>>

\* The for loop ends.
DrainEnd ==
    /\ pc = "drain"
    /\ done_futures = <<>>
    /\ pc' = "print"
    /\ UNCHANGED <<config, counters, ghosts, pending_urls, failed_forever_urls,
                   future_to_url, url_to_attempts, done_futures, files, submitted,
                   progress, printed>>

\* print(f" Downloaded: ... | Remaining: ... | Failed: ..."); time.sleep(0.25)
PrintProgress ==
    /\ pc = "print"
    /\ progress' = <<success_count, remaining_urls, fail_count>>
    /\ printed' = printed + 1
    /\ pc' = "loop"
    /\ UNCHANGED <<config, counters, ghosts, pending_urls, failed_forever_urls,
                   future_to_url, url_to_attempts, done_futures, files, submitted>>

\* ThreadPoolExecutor.__exit__ on an exception: shutdown(wait=True) joins the
\* workers, which first run every work item still queued; then the exception
\* leaves _download_images.
ShutdownWait ==
    /\ pc = "unwinding"
    /\ Finished = InFlight
    /\ pc' = "raised"
    /\ UNCHANGED <<config, counters, ghosts, pending_urls, failed_forever_urls,
                   future_to_url, url_to_attempts, done_futures, files, submitted,
                   progress, printed>>

Next ==
    \/ EnterExecutor
    \/ LoopTest
    \/ Submit
    \/ SubmitEnd
    \/ Snapshot
    \/ DrainOne
    \/ DrainRaise
    \/ DrainEnd
    \/ PrintProgress
    \/ ShutdownWait
    \/ WorkerStart
    \/ FetchComplete

Spec == Init /\ [][Next]_vars

\* The steps of the control thread.
Control ==
    \/ EnterExecutor \/ LoopTest \/ Submit \/ SubmitEnd \/ Snapshot
    \/ DrainOne \/ DrainRaise \/ DrainEnd \/ PrintProgress \/ ShutdownWait

\* The control thread keeps running (its sleep is 0.25 s), a free worker
\* takes queued work, and every fetch ends: requests.get has timeout=30.
FairSpec ==
    /\ Spec
    /\ WF_vars(Control)
    /\ WF_vars(WorkerStart)
    /\ WF_vars(FetchComplete)


\* ------------------------------------------------------------------ properties
Count(seq, x) == Cardinality({i \in 1..Len(seq) : seq[i] = x})
InputUrls == Range(urls)

\* C1: success_count + fail_count never exceeds total_urls, and equals it
\* when the loop reaches its terminal condition and returns.
C1_CountsPartition ==
    /\ success_count + fail_count <= total_urls
    /\ pc = "done" => success_count + fail_count = total_urls

C1_Witness ==
    /\ pc = "done" /\ max_attempts >= 1 /\ max_workers >= 1
    /\ total_urls = 2 /\ success_count = 1 /\ fail_count = 1

\* C2: a consumed failure is re-queued exactly when its reason is a transport
\* error (any text) or status 5xx, 408 or 429 and attempts are left; every
\* other failure is recorded as permanent.
C2_RetryClassification ==
    [][(pc = "drain" /\ done_futures # <<>> /\ done_futures' = Tail(done_futures))
        => LET i == IndexOf(Head(done_futures))
               res == future_to_url[i].res
               url == future_to_url[i].url
           IN (~res.exc /\ ~res.success) =>
                IF Class(res) = "R" /\ url_to_attempts[url] < max_attempts
                THEN /\ pending_urls' = Append(pending_urls, url)
                     /\ failed_forever_urls' = failed_forever_urls
                ELSE /\ failed_forever_urls' = Append(failed_forever_urls, url)
                     /\ pending_urls' = pending_urls]_vars

\* C3: never more than max_workers fetches executing at once.
C3_ConcurrencyBound == Cardinality(Running) <= max_workers

C3_Witness == max_workers = 1 /\ Cardinality(Running) = 1 /\ Queued # {}

\* C4 as claimed: the in-flight set never holds more than max_workers futures.
C4_InFlightCapped ==
    (max_workers >= 1 /\ max_attempts >= 1) => Len(future_to_url) <= max_workers

\* C4 as amended: the dispatch step pops every pending WorkItem, whatever
\* the number in flight: when it ends the pending queue is empty and every
\* remaining URL is in flight; the in-flight set never exceeds total_urls.
C4_DispatchAll ==
    /\ Len(future_to_url) <= total_urls
    /\ pc = "snapshot" => pending_urls = <<>> /\ Len(future_to_url) = remaining_urls

C4_Witness == pc = "snapshot" /\ max_workers >= 1 /\ Len(future_to_url) > max_workers

\* C5: at the end of a run, a URL all of whose attempts failed with a
\* retryable reason was fetched exactly max_attempts times and is listed as
\* permanently failed.
C5_Exhaustion ==
    (pc = "done" /\ max_attempts >= 1) =>
        \A u \in InputUrls :
            (\A k \in 1..Len(outcomes[u]) : outcomes[u][k] = "R") =>
                /\ fetches[u] = max_attempts
                /\ Len(outcomes[u]) = max_attempts
                /\ Count(failed_forever_urls, u) = 1

\* Units a URL has contributed to success_count and fail_count.
Contribution(u) == Count(outcomes[u], "S") + Count(failed_forever_urls, u)

\* C6: no dispatched WorkItem contributes twice, and once the run has ended
\* every dispatched WorkItem has contributed exactly one unit.
C6_NoResultDropped ==
    \A u \in InputUrls :
        /\ Contribution(u) <= 1
        /\ (pc \in {"done", "raised"} /\ fetches[u] > 0) => Contribution(u) = 1

\* C7: no fetch ends in an exception, and the control loop never raises
\* while consuming a result.
C7_FetcherNeverRaises ==
    /\ \A i \in InFlight : ~future_to_url[i].res.exc
    /\ pc # "unwinding"

\* C8: with max_attempts < 1 or max_workers < 1 the run fails before any
\* fetch is dispatched and never enters the loop.
C8_BadConfigFatal ==
    (max_attempts < 1 \/ max_workers < 1) => (submitted = 0 /\ pc \in {"executor", "raised"})

\* C9: remaining_urls >= 0 and success_count + fail_count + remaining_urls =
\* total_urls; each progress line is (succeeded, total - succeeded - failed,
\* failed); each pass of the loop prints exactly one.
C9_Progress ==
    /\ remaining_urls >= 0
    /\ success_count + fail_count + remaining_urls = total_urls
    /\ pc = "loop" =>
        /\ printed = (IF progress = NoProgress THEN 0 ELSE 1)
        /\ progress # NoProgress =>
              progress = <<success_count, total_urls - success_count - fail_count, fail_count>>
    /\ pc \in {"submit", "snapshot", "drain", "print"} => printed = 0

C9_Witness == pc = "loop" /\ printed = 1 /\ progress = <<1, 0, 1>>

\* C10: no URL is listed twice in failed_forever_urls.
C10_NoDuplicateFailures ==
    \A i, j \in 1..Len(failed_forever_urls) :
        i # j => failed_forever_urls[i] # failed_forever_urls[j]

C10_Witness == Len(failed_forever_urls) = 2 /\ pc = "done"


Last(seq) == seq[Len(seq)]
InFlightOf(u) == {i \in InFlight : future_to_url[i].url = u}

\* C11: when the loop returns, nothing is pending or in flight, every input
\* URL has a consumed final result, failed_forever_urls holds exactly the
\* URLs whose final result is a failure, and success_count counts the others.
C11_ReturnedList ==
    pc = "done" =>
        /\ pending_urls = <<>> /\ future_to_url = <<>>
        /\ \A u \in InputUrls : outcomes[u] # <<>>
        /\ Range(failed_forever_urls) = {u \in InputUrls : Last(outcomes[u]) # "S"}
        /\ success_count = Cardinality({u \in InputUrls : Last(outcomes[u]) = "S"})

C11_Witness ==
    /\ pc = "done" /\ Len(failed_forever_urls) = 1 /\ success_count = 1
    /\ \E u \in InputUrls : outcomes[u] = <<"R", "S">>

\* C12: a result with a non-retryable HTTP status is the URL's last one: the
\* URL is listed as failed at once and is not dispatched again, so a first
\* attempt ending that way is the only one.
C12_NonRetryableIsFinal ==
    \A u \in InputUrls : \A k \in 1..Len(outcomes[u]) :
        outcomes[u][k] = "P" =>
            /\ k = Len(outcomes[u])
            /\ fetches[u] = k
            /\ Count(failed_forever_urls, u) = 1
            /\ Count(pending_urls, u) = 0
            /\ InFlightOf(u) = {}

C12_Witness ==
    /\ pc = "done" /\ max_attempts = 2
    /\ \E u \in InputUrls : outcomes[u] = <<"P">> /\ fetches[u] = 1

\* C13: a URL with k < max_attempts retryable failures and nothing else so
\* far gets its attempt k + 1 (it is not listed as failed); if that attempt
\* succeeds, the URL has k + 1 fetches, one success, and is not listed.
C13_RetryThenSuccess ==
    \A u \in InputUrls :
        LET n == Len(outcomes[u]) IN
        /\ (n < max_attempts /\ \A k \in 1..n : outcomes[u][k] = "R")
              => Count(failed_forever_urls, u) = 0
        /\ (n >= 1 /\ outcomes[u][n] = "S" /\ \A k \in 1..(n - 1) : outcomes[u][k] = "R")
              => /\ fetches[u] = n
                 /\ Count(outcomes[u], "S") = 1
                 /\ Count(failed_forever_urls, u) = 0


\* C14: a fetch that ends without status 200 (another status, a transport
\* error, or no exchange at all) leaves every file of the output directory
\* as it was.
C14_FailureWritesNothing ==
    [][\A i \in InFlight :
          (/\ Len(future_to_url') = Len(future_to_url)
           /\ future_to_url[i].state = "running"
           /\ future_to_url'[i].state = "finished"
           /\ ~future_to_url'[i].res.success
           /\ future_to_url'[i].res.error \notin WriteErrMsgs)
          => files' = files]_vars

C14_Witness ==
    \E i \in InFlight :
        /\ future_to_url[i].state = "finished"
        /\ future_to_url[i].res.kind = "HttpStatus"
        /\ files[Filename(future_to_url[i].url)] = NoFile
        /\ \E n \in FileNames : files[n] \notin {NoFile, Truncated}

\* C15: with no input URL nothing is ever submitted, the loop body is never
\* entered, the list stays empty, and (the executor accepting max_workers)
\* the run does not raise.
C15_EmptyInput ==
    urls = <<>> =>
        /\ submitted = 0
        /\ failed_forever_urls = <<>>
        /\ pc \in {"executor", "loop", "done", "raised"}
        /\ pc = "raised" => max_workers < 1

C15_Witness == urls = <<>> /\ pc = "done" /\ max_workers >= 1 /\ max_attempts >= 1

\* C16: with valid options, and every fetch completing, the loop eventually
\* finds the pending queue and the in-flight set empty and returns.
C16_Termination == (max_attempts >= 1 /\ max_workers >= 1) => <>(pc = "done")

\* C17: the pending queue changes only by a pop at the front, whose item is
\* the one submitted, or by an append at the back; the executor starts the
\* oldest submitted fetch first.
C17_Fifo ==
    [][/\ pending_urls' # pending_urls =>
            \/ /\ pending_urls # <<>>
               /\ pending_urls' = Tail(pending_urls)
               /\ future_to_url' = Append(future_to_url, NewFuture(submitted + 1, Head(pending_urls)))
            \/ \E u \in InputUrls : pending_urls' = Append(pending_urls, u)
       /\ \A i \in InFlight :
            (/\ Len(future_to_url') = Len(future_to_url)
             /\ future_to_url[i].state = "queued"
             /\ future_to_url'[i].state = "running")
            => \A j \in Queued : future_to_url[i].fid <= future_to_url[j].fid]_vars

C17_Witness ==
    /\ pc = "drain" /\ Len(urls) = 2
    /\ pending_urls = urls /\ submitted = 2
    /\ \A u \in InputUrls : url_to_attempts[u] = 2


\* C18: url_to_attempts[u] is 1 plus the number of times u was re-queued
\* (each consumed result either re-queued u or was its final one), equals
\* the number of fetches submitted for u while u is in flight, and never
\* exceeds max_attempts.
C18_AttemptCounter ==
    \A u \in InputUrls :
        /\ url_to_attempts[u] = 1 + Len(outcomes[u]) - Contribution(u)
        /\ InFlightOf(u) # {} => url_to_attempts[u] = fetches[u]
        /\ max_attempts >= 1 => url_to_attempts[u] <= max_attempts

C18_Witness ==
    \E u \in InputUrls :
        /\ max_attempts = 2 /\ url_to_attempts[u] = 2
        /\ InFlightOf(u) # {} /\ fetches[u] = 2

\* C19: every input URL is in exactly one place: once in pending_urls, in
\* one future of future_to_url, counted as succeeded, or listed as failed;
\* remaining_urls = |pending_urls| + |future_to_url|.
C19_Partition ==
    /\ \A u \in InputUrls :
          Count(pending_urls, u) + Cardinality(InFlightOf(u))
            + Count(outcomes[u], "S") + Count(failed_forever_urls, u) = 1
    /\ remaining_urls = Len(pending_urls) + Len(future_to_url)

C19_Witness ==
    /\ Len(pending_urls) = 1 /\ Len(failed_forever_urls) = 1
    /\ pc = "drain" /\ future_to_url = <<>>

\* C20: at most total_urls * max_attempts fetches are ever submitted, and
\* when the loop returns every input URL has been fetched at least once.
C20_WorkBound ==
    /\ max_attempts >= 1 => submitted <= total_urls * max_attempts
    /\ pc = "done" => submitted >= total_urls /\ \A u \in InputUrls : fetches[u] >= 1

C20_Witness ==
    /\ pc = "done" /\ total_urls = 2 /\ max_attempts = 2
    /\ submitted = total_urls * max_attempts

====
